---- MODULE Spec2Model ----
(***************************************************************************)
(* The home view of the caregiving application (HomePage in                *)
(* frontend/src/app/page.tsx): the camera/stream status poller, the        *)
(* emergency (fall detection) status poller, the dismissed/alerted sets,   *)
(* the live feed modal and the fall-detection card section.                *)
(*                                                                         *)
(* React state is modelled by one variable per useState cell.  An async    *)
(* handler that awaits fetch() is split at the await: the part before it   *)
(* (issuing the GET) and the continuation (handling the response or the    *)
(* failure).  A request in flight carries the values of alertedFalls and   *)
(* dismissedFalls of the render whose checkEmergencyStatus closure issued  *)
(* it, because the continuation reads those, not the current state.        *)
(*                                                                         *)
(* Further parts: the countdown of the Waiting card (FallWaitingAlert) with *)
(* the wall clock; the session (AuthProvider in context/AuthContext,       *)
(* ClientLayout, the sign-in page, the Logout button of BottomNav); the   *)
(* reminders page (app/reminders/page.tsx); and the videos page            *)
(* (VideosPage: its list with filters and its player).  Each part has its  *)
(* own next-state relation and specification; the parts it leaves alone    *)
(* stay as constructed.                                                    *)
(***************************************************************************)
EXTENDS Naturals, Integers, FiniteSets, Sequences, TLC

\* Number of distinct fall timestamps the backend may report.
NumFalls == 2
\* Most emergency-status GET requests awaiting their response at once.
MaxInFlight == 2
\* Most stream-status GET requests awaiting their response at once.
MaxStreamInFlight == 1

Timestamps == 1..NumFalls

VARIABLES
    phase,                \* "init" (constructed), "mounted", "unmounted"
    streamBaseUrl,        \* process.env.NEXT_PUBLIC_STREAM_BASE_URL || ''
    isConnected,
    showLiveFeed,
    streamStatus,
    isCheckingStatus,
    streamError,
    streamLoaded,
    emergencyStatus,
    alertedFalls,
    emergencyAlertShown,
    dismissedFalls,
    streamInterval,       \* the 10 s interval of the stream poll effect is set
    emergencyInterval,    \* the 5 s interval of the emergency poll effect
    emergencyTimers,      \* the interval handles that effect has set and not cleared
    streamInFlight,       \* stream-status GETs awaiting a response
    emergencyInFlight,    \* emergency-status GETs awaiting a response, oldest first
    soundCount,           \* per timestamp, how often audio.play() was called
    noResponseSeen,       \* history: timestamps a handled response reported NO_RESPONSE for
    dismissCalls,         \* history: timestamps dismissFall was called with
    lastResponse,         \* history: the data of the last successful emergency response
    scenario,             \* history: the cards shown after each response so far
    staleRequests,        \* history: how many of the oldest requests in flight were
                          \* issued before a request whose response was applied
    now,                  \* Date.now(), in milliseconds
    timeSinceFall,        \* the useState cell of FallWaitingAlert; 0 while there is none
    authPhase,            \* AuthProvider: "init" (constructed) or "ready" (restore effect ran)
    user,                 \* AuthProvider useState cells: user, token, loading
    token,
    authLoading,
    authStorage,          \* localStorage item 'medispecs.auth'
    authInFlight,         \* auth requests awaiting a response, oldest first
    pathname,             \* the route the router is on
    formLoading,          \* AuthPage useState cells: loading, error
    formError,
    unhandledRejection,   \* history: a rejected promise was left without a handler
    lastAuthEvent,        \* history: the last completed auth operation
    layoutReplaced,       \* history: the layout's effect of the last commit called router.replace
    remPhase,             \* RemindersPage: "none" (not rendered) or "mounted"
    remEffectToken,       \* the token the page's load effect last ran with
    reminders,            \* RemindersPage useState cells: reminders, loading, error,
    remLoading,           \* isOpen, editingId
    remError,
    isOpen,
    editingId,
    remInFlight,          \* reminder requests awaiting a response, oldest first
    webhookInFlight,      \* device webhook calls that were triggered and not yet settled
    lastReminderOutcome,  \* history: the last reminder request answered for a mounted page
    vidPhase,             \* VideosPage: "none" (not rendered) or "mounted"
    vidEffectToken,       \* the token the page's fetch effect last ran with
    videos,               \* VideosPage useState cells: videos, loading, error,
    videosLoading,        \* selectedDate, timeFrom, timeTo, selectedVideo,
    videosError,          \* playbackUrl, loadingPlayback
    selectedDate,
    timeFrom,
    timeTo,
    selectedVideo,
    playbackUrl,
    loadingPlayback,
    listInFlight,         \* GET /videos requests awaiting a response, oldest first
    playInFlight,         \* playback-url requests awaiting a response, oldest first
    videosQuery           \* history: the query of the request whose response is listed

vars == <<phase, streamBaseUrl, isConnected, showLiveFeed, streamStatus,
          isCheckingStatus, streamError, streamLoaded, emergencyStatus,
          alertedFalls, emergencyAlertShown, dismissedFalls, streamInterval,
          emergencyInterval, emergencyTimers, streamInFlight, emergencyInFlight, soundCount,
          noResponseSeen, dismissCalls, lastResponse, scenario, staleRequests,
          now, timeSinceFall, authPhase, user, token, authLoading, authStorage,
          authInFlight, pathname, formLoading, formError, unhandledRejection,
          lastAuthEvent, layoutReplaced, remPhase, remEffectToken, reminders, remLoading,
          remError, isOpen, editingId, remInFlight, webhookInFlight,
          lastReminderOutcome, vidPhase, vidEffectToken, videos, videosLoading,
          videosError, selectedDate, timeFrom, timeTo, selectedVideo, playbackUrl,
          loadingPlayback, listInFlight, playInFlight, videosQuery>>

streamVars == <<isConnected, streamStatus, isCheckingStatus>>
modalVars == <<showLiveFeed, streamError, streamLoaded>>
fallVars == <<emergencyStatus, alertedFalls, emergencyAlertShown, dismissedFalls>>
historyVars == <<noResponseSeen, dismissCalls, lastResponse, scenario, staleRequests>>

\* The session provider, the layout and the sign-in page.
authVars == <<authPhase, user, token, authLoading, authStorage, authInFlight,
              pathname, formLoading, formError, unhandledRejection, lastAuthEvent,
              layoutReplaced>>

\* The home view.
homeVars == <<phase, streamBaseUrl, streamVars, modalVars, fallVars,
              streamInterval, emergencyInterval, emergencyTimers, streamInFlight,
              emergencyInFlight, soundCount, historyVars, timeSinceFall>>

\* The reminders page.
reminderVars == <<remPhase, remEffectToken, reminders, remLoading, remError,
                  isOpen, editingId, remInFlight, webhookInFlight,
                  lastReminderOutcome>>

\* The videos page.
videoVars == <<vidPhase, vidEffectToken, videos, videosLoading, videosError,
               selectedDate, timeFrom, timeTo, selectedVideo, playbackUrl,
               loadingPlayback, listInFlight, playInFlight, videosQuery>>

\* The state outside the home view.
otherVars == <<now, authVars, reminderVars, videoVars>>


-----------------------------------------------------------------------------
(* Data *)

UserResponse == {"null", "CONFIRMED", "NO_RESPONSE"}

\* latest_fall: FallEvent | null.  isNull marks the null value.
NullFall == [isNull |-> TRUE, timestamp |-> 0, user_response |-> "null"]
FallEvent == [isNull : {FALSE}, timestamp : Timestamps, user_response : UserResponse]

\* EmergencyStatus | null as held by useState.
NullStatus == [isNull |-> TRUE, monitoring |-> FALSE, latest_fall |-> NullFall]
EmergencyStatus == [isNull : {FALSE}, monitoring : BOOLEAN,
                    latest_fall : FallEvent \cup {NullFall}]

\* StreamStatus | null; only the fields the page reads.
NullStream == [isNull |-> TRUE, camera_running |-> FALSE, has_frame |-> FALSE]
StreamStatus == [isNull : {FALSE}, camera_running : BOOLEAN, has_frame : BOOLEAN]

\* No interval handle.
NoInterval == [isSet |-> FALSE, alertedFalls |-> {}, dismissedFalls |-> {}]

\* What a checkEmergencyStatus closure captured from its render.
Closure(alerted, dismissed) ==
    [isSet |-> TRUE, alertedFalls |-> alerted, dismissedFalls |-> dismissed]

FailureKinds == {"non2xx", "network"}

\* The sessions the auth backend hands out: a token and the user it is for.
Sessions == {[token |-> "t1", user |-> "u1"], [token |-> "t2", user |-> "u2"]}
Users == {session.user : session \in Sessions}

\* localStorage.getItem(STORAGE_KEY) === null
NoItem == <<>>

\* The routes.
Paths == {"/", "/auth", "/reminders"}

\* Nothing has completed yet.
NoAuthEvent == [kind |-> "none", token |-> "null", user |-> "null",
                from |-> "/", restored |-> FALSE]

AuthEvent(kind, t, u) ==
    [kind |-> kind, token |-> t, user |-> u, from |-> pathname, restored |-> FALSE]

-----------------------------------------------------------------------------
(* The fall detection section of the page: one operator per JSX branch. *)

\* emergencyStatus?.monitoring
Monitoring(status) == ~status.isNull /\ status.monitoring

\* Variant: the offline card tests !emergencyStatus, not the monitoring flag.
OfflineOnlyWhenUnset(status) == status.isNull

\* {!emergencyStatus?.monitoring && (...offline card...)}
OfflineCardShown(status) == ~Monitoring(status)

\* Variant: the all-clear card without the !emergencyStatus.latest_fall test.
IdleWheneverMonitoring(status) == Monitoring(status)

\* {emergencyStatus?.monitoring && !emergencyStatus.latest_fall && (...all clear...)}
IdleCardShown(status) == Monitoring(status) /\ status.latest_fall.isNull

\* STATE 1: user_response === null and timestamp not dismissed
WaitingCardShown(status, dismissed) ==
    /\ Monitoring(status)
    /\ ~status.latest_fall.isNull
    /\ status.latest_fall.user_response = "null"
    /\ status.latest_fall.timestamp \notin dismissed

\* STATE 2: user_response === 'CONFIRMED' and timestamp not dismissed
ConfirmedCardShown(status, dismissed) ==
    /\ Monitoring(status)
    /\ ~status.latest_fall.isNull
    /\ status.latest_fall.user_response = "CONFIRMED"
    /\ status.latest_fall.timestamp \notin dismissed

\* Variant: the emergency card tests that nothing was dismissed, not that its
\* own timestamp was not.
EmergencyCardUnlessAnyDismissed(status, dismissed) ==
    /\ Monitoring(status)
    /\ ~status.latest_fall.isNull
    /\ status.latest_fall.user_response = "NO_RESPONSE"
    /\ dismissed = {}

\* STATE 3: user_response === 'NO_RESPONSE' and timestamp not dismissed
EmergencyCardShown(status, dismissed) ==
    /\ Monitoring(status)
    /\ ~status.latest_fall.isNull
    /\ status.latest_fall.user_response = "NO_RESPONSE"
    /\ status.latest_fall.timestamp \notin dismissed

Cards == {"Offline", "Idle", "Waiting", "Confirmed", "Emergency"}
FallCards == {"Waiting", "Confirmed", "Emergency"}

\* The cards the section renders for a given state: every branch is evaluated.
RenderedCards(status, dismissed) ==
    {c \in Cards :
        \/ c = "Offline" /\ OfflineCardShown(status)
        \/ c = "Idle" /\ IdleCardShown(status)
        \/ c = "Waiting" /\ WaitingCardShown(status, dismissed)
        \/ c = "Confirmed" /\ ConfirmedCardShown(status, dismissed)
        \/ c = "Emergency" /\ EmergencyCardShown(status, dismissed)}

\* What is on screen: nothing once the view is torn down.
DisplayedCards ==
    IF phase = "unmounted" THEN {} ELSE RenderedCards(emergencyStatus, dismissedFalls)

\* The timestamp whose fall card (Waiting, Confirmed or Emergency) is on screen.
DisplayedFallTimestamps ==
    IF DisplayedCards \cap FallCards # {}
    THEN {emergencyStatus.latest_fall.timestamp} ELSE {}

-----------------------------------------------------------------------------
(* The countdown of the Waiting card (FallWaitingAlert) *)

\* The wall clock advances in steps of ClockStep milliseconds up to MaxNow.
ClockStep == 500
MaxNow == 17500

\* The response window of the Waiting card, in seconds.
ResponseWindow == 15

\* new Date(fallTimestamp).getTime(): the fall with timestamp t happened t s
\* after the clock's origin.
FallTime(fallTimestamp) == 1000 * fallTimestamp

\* getTimeSinceFall: Math.floor((now - fallTime) / 1000)
GetTimeSinceFall(fallTimestamp) == (now - FallTime(fallTimestamp)) \div 1000

\* Variant: 15 - timeSinceFall without Math.max.
SecondsRemainingUnclamped(sinceFall) == ResponseWindow - sinceFall

\* const secondsRemaining = Math.max(0, 15 - timeSinceFall)
SecondsRemaining(sinceFall) ==
    IF ResponseWindow - sinceFall > 0 THEN ResponseWindow - sinceFall ELSE 0

\* <FallWaitingAlert> is part of the committed tree.
WaitingAlertMounted ==
    phase = "mounted" /\ WaitingCardShown(emergencyStatus, dismissedFalls)

\* The number the Waiting card shows followed by "s".
DisplayedCountdown == SecondsRemaining(timeSinceFall)

\* The seconds remaining from which the card is styled urgent.
UrgentThreshold == 5

\* Variant: the card turns urgent only once the countdown is at 0.
UrgentOnlyAtZero(sinceFall) == SecondsRemaining(sinceFall) = 0

\* const isUrgent = secondsRemaining <= 5
IsUrgent(sinceFall) == SecondsRemaining(sinceFall) <= UrgentThreshold

\* The Waiting card is rendered in its red (urgent) style.
DisplayedUrgent == IsUrgent(timeSinceFall)

\* timeSinceFall once a step of HomePage is committed.  getTimeSinceFall is a
\* new function in every render of HomePage, so each re-render re-runs the
\* effect of a mounted FallWaitingAlert, which calls update() at once; a newly
\* mounted one runs it too, and one that is gone holds nothing.
TimeSinceFallAfterCommit(rerendered) ==
    IF ~WaitingAlertMounted' THEN 0
    ELSE IF rerendered THEN GetTimeSinceFall(emergencyStatus'.latest_fall.timestamp)
    ELSE timeSinceFall

-----------------------------------------------------------------------------
(* Construction *)

\* The backend sequence of the round-trip scenario, one response per poll.
ScenarioResponses ==
    << [isNull |-> FALSE, monitoring |-> FALSE, latest_fall |-> NullFall],
       [isNull |-> FALSE, monitoring |-> TRUE, latest_fall |-> NullFall],
       [isNull |-> FALSE, monitoring |-> TRUE, latest_fall |->
           [isNull |-> FALSE, timestamp |-> 1, user_response |-> "null"]],
       [isNull |-> FALSE, monitoring |-> TRUE, latest_fall |->
           [isNull |-> FALSE, timestamp |-> 1, user_response |-> "CONFIRMED"]] >>

ScenarioOff == [step |-> Len(ScenarioResponses) + 1, shown |-> <<>>]

\* The useState initial values; no effect has run yet.
Init ==
    /\ phase = "init"
    /\ streamBaseUrl \in {"", "http://device"}
    /\ isConnected = FALSE
    /\ showLiveFeed = FALSE
    /\ streamStatus = NullStream
    /\ isCheckingStatus = TRUE
    /\ streamError = "null"
    /\ streamLoaded = FALSE
    /\ emergencyStatus = NullStatus
    /\ alertedFalls = {}
    /\ emergencyAlertShown = FALSE
    /\ dismissedFalls = {}
    /\ streamInterval = FALSE
    /\ emergencyInterval = NoInterval
    /\ emergencyTimers = 0
    /\ streamInFlight = 0
    /\ emergencyInFlight = <<>>
    /\ soundCount = [t \in Timestamps |-> 0]
    /\ noResponseSeen = {}
    /\ dismissCalls = {}
    /\ lastResponse = NullStatus
    /\ scenario = [step |-> 0, shown |-> <<>>]
    /\ staleRequests = 0
    /\ now = 0
    /\ timeSinceFall = 0
    /\ authPhase = "init"
    /\ user = "null"
    /\ token = "null"
    /\ authLoading = TRUE
    /\ authStorage = NoItem
    /\ authInFlight = <<>>
    /\ pathname = "/"
    /\ formLoading = FALSE
    /\ formError = "null"
    /\ unhandledRejection = FALSE
    /\ lastAuthEvent = NoAuthEvent
    /\ layoutReplaced = FALSE
    /\ remPhase = "none"
    /\ remEffectToken = "unset"
    /\ reminders = <<>>
    /\ remLoading = TRUE
    /\ remError = "null"
    /\ isOpen = FALSE
    /\ editingId = 0
    /\ remInFlight = <<>>
    /\ webhookInFlight = 0
    /\ lastReminderOutcome = [op |-> "none", ok |-> TRUE]
    /\ vidPhase = "none"
    /\ vidEffectToken = "unset"
    /\ videos = <<>>
    /\ videosLoading = TRUE
    /\ videosError = "null"
    /\ selectedDate = ""
    /\ timeFrom = ""
    /\ timeTo = ""
    /\ selectedVideo = "null"
    /\ playbackUrl = "null"
    /\ loadingPlayback = FALSE
    /\ listInFlight = <<>>
    /\ playInFlight = <<>>
    /\ videosQuery = {}

-----------------------------------------------------------------------------
(* The stream status poller *)

\* Variant: checkStreamStatus without its "if (!streamBaseUrl)" early return.
StreamRequestUnguarded == TRUE

\* checkStreamStatus up to its await: no URL, no request.
StreamRequestIssued == streamBaseUrl # ""

\* The effect body of the emergency poll effect: with no URL it returns before
\* polling; else it calls checkEmergencyStatus and sets the interval, both with
\* the closure of the render the effect belongs to.
EmergencyEffectPolls == streamBaseUrl # ""

\* Remove the i-th element of a sequence.
RemoveAt(seq, i) == SubSeq(seq, 1, i - 1) \o SubSeq(seq, i + 1, Len(seq))

\* The effect set up by a render whose sets are (alerted, dismissed), run with
\* the requests `pending` still in flight: the requests in flight afterwards.
EmergencyEffectRequests(pending, alerted, dismissed) ==
    IF EmergencyEffectPolls
    THEN Append(pending, Closure(alerted, dismissed))
    ELSE pending

\* ... and the interval it leaves set.
EmergencyEffectInterval(alerted, dismissed) ==
    IF EmergencyEffectPolls THEN Closure(alerted, dismissed) ELSE NoInterval

\* ... and the interval handles set and not cleared once its body has run:
\* setInterval(checkEmergencyStatus, 5000) adds one.
TimersAfterEffect(timers) ==
    IF EmergencyEffectPolls THEN timers + 1 ELSE timers

\* Variant: the effect returns no cleanup, so a re-run clears nothing.
TimersLeakedByCleanup(timers) == timers

\* return () => clearInterval(interval): the cleanup that runs before the
\* effect re-runs and when the view is torn down clears the handle the effect
\* had set, if it had set one.
TimersAfterCleanup(timers) == IF timers > 0 THEN timers - 1 ELSE timers

\* First render committed: the two poll effects run.
Mount ==
    /\ phase = "init"
    /\ phase' = "mounted"
    /\ IF StreamRequestIssued
       THEN /\ streamInFlight' = streamInFlight + 1
            /\ UNCHANGED isCheckingStatus
       ELSE /\ isCheckingStatus' = FALSE
            /\ UNCHANGED streamInFlight
    /\ streamInterval' = TRUE
    /\ emergencyInFlight' =
           EmergencyEffectRequests(emergencyInFlight, alertedFalls, dismissedFalls)
    /\ emergencyInterval' = EmergencyEffectInterval(alertedFalls, dismissedFalls)
    /\ emergencyTimers' = TimersAfterEffect(emergencyTimers)
    /\ UNCHANGED <<otherVars, streamBaseUrl, isConnected, streamStatus, modalVars, fallVars,
                   soundCount, historyVars>>
    /\ timeSinceFall' = TimeSinceFallAfterCommit(TRUE)

\* The 10 s interval fires and calls checkStreamStatus.
StreamTick ==
    /\ streamInterval
    /\ IF StreamRequestIssued
       THEN /\ streamInFlight < MaxStreamInFlight
            /\ streamInFlight' = streamInFlight + 1
            /\ UNCHANGED isCheckingStatus
       ELSE /\ isCheckingStatus' = FALSE
            /\ UNCHANGED streamInFlight
    /\ UNCHANGED <<otherVars, phase, streamBaseUrl, isConnected, streamStatus, modalVars,
                   fallVars, streamInterval, emergencyInterval, emergencyTimers, emergencyInFlight,
                   soundCount, historyVars>>
    /\ timeSinceFall' = TimeSinceFallAfterCommit(isCheckingStatus' # isCheckingStatus)

\* setIsConnected(data.camera_running && data.has_frame)
ConnectedFor(data) == data.camera_running /\ data.has_frame

\* A 2xx response to a stream-status GET: try body, then finally.
\* State setters of a torn-down view do nothing.
StreamResponseOk(data) ==
    /\ streamInFlight > 0
    /\ streamInFlight' = streamInFlight - 1
    /\ IF phase = "mounted"
       THEN /\ streamStatus' = data
            /\ isConnected' = ConnectedFor(data)
            /\ isCheckingStatus' = FALSE
       ELSE UNCHANGED streamVars
    /\ UNCHANGED <<otherVars, phase, streamBaseUrl, modalVars, fallVars, streamInterval,
                   emergencyInterval, emergencyTimers, emergencyInFlight, soundCount, historyVars>>
    /\ timeSinceFall' = TimeSinceFallAfterCommit(phase = "mounted")

\* Variant: the catch block leaves streamStatus alone.
StreamStatusRetained(previous) == previous

\* What the catch block of checkStreamStatus leaves in streamStatus ...
StreamStatusAfterFailure(previous) == NullStream
\* ... and in isConnected.
ConnectedAfterFailure(previous) == FALSE

\* A non-2xx response or a network error of a stream-status GET: catch, finally.
StreamResponseFail(kind) ==
    /\ streamInFlight > 0
    /\ streamInFlight' = streamInFlight - 1
    /\ IF phase = "mounted"
       THEN /\ streamStatus' = StreamStatusAfterFailure(streamStatus)
            /\ isConnected' = ConnectedAfterFailure(isConnected)
            /\ isCheckingStatus' = FALSE
       ELSE UNCHANGED streamVars
    /\ UNCHANGED <<otherVars, phase, streamBaseUrl, modalVars, fallVars, streamInterval,
                   emergencyInterval, emergencyTimers, emergencyInFlight, soundCount, historyVars>>
    /\ timeSinceFall' = TimeSinceFallAfterCommit(streamVars' # streamVars)

-----------------------------------------------------------------------------
(* The emergency status poller *)

\* The 5 s interval fires and calls the checkEmergencyStatus it was set with.
EmergencyTick ==
    /\ emergencyInterval.isSet
    /\ Len(emergencyInFlight) < MaxInFlight
    /\ emergencyInFlight' = Append(emergencyInFlight, emergencyInterval)
    /\ UNCHANGED <<otherVars, phase, streamBaseUrl, streamVars, modalVars, fallVars,
                   streamInterval, emergencyInterval, emergencyTimers, streamInFlight, soundCount,
                   historyVars>>
    /\ UNCHANGED timeSinceFall

\* data.latest_fall?.user_response === 'NO_RESPONSE'
ReportsNoResponse(data) ==
    ~data.latest_fall.isNull /\ data.latest_fall.user_response = "NO_RESPONSE"

\* Variant: the handler's test without !dismissedFalls.has(fallId).
NotYetAlertedIgnoringDismissed(fallId, closure) ==
    fallId \notin closure.alertedFalls

\* "Only show emergency alert once per fall": the handler's test on the sets
\* its closure captured.
NotYetAlerted(fallId, closure) ==
    fallId \notin closure.alertedFalls /\ fallId \notin closure.dismissedFalls

\* The handler enters the branch that plays the sound.
PlaysSound(data, closure) ==
    ReportsNoResponse(data) /\ NotYetAlerted(data.latest_fall.timestamp, closure)

\* setAlertedFalls(prev => new Set(prev).add(fallId))
AddAlerted(prev, fallId) == prev \cup {fallId}

\* Variant: a response without a fall keeps the fall of the status before it.
StatusKeepingFall(previous, data) ==
    IF data.latest_fall.isNull /\ ~previous.isNull
    THEN [data EXCEPT !.latest_fall = previous.latest_fall]
    ELSE data

\* setEmergencyStatus(data): the status held after a response was handled.
StatusAfterResponse(previous, data) == data

\* Variant: the catch block resets the status, as checkStreamStatus's does.
StatusClearedOnFailure(previous) == NullStatus

\* The catch block: "Don't clear existing status on error - keep last known state".
StatusAfterFailure(previous) == previous

\* The requests in flight are kept in the order they were issued.  Once the
\* response of the i-th was applied, the i - 1 before it are stale ...
StaleAfterApplied(stale, i) == IF i <= stale THEN stale - 1 ELSE i - 1
\* ... and a request answered without its response being applied leaves the
\* others as they were.
StaleAfterDropped(stale, i) == IF i <= stale THEN stale - 1 ELSE stale

\* The history of the round-trip scenario after a response was applied.
ScenarioAfter(data, shown) ==
    IF /\ scenario.step < Len(ScenarioResponses)
       /\ data = ScenarioResponses[scenario.step + 1]
    THEN [step |-> scenario.step + 1, shown |-> Append(scenario.shown, shown)]
    ELSE ScenarioOff

\* A 2xx response to the i-th emergency-status GET in flight, with body `data`.
\* The continuation runs with the sets of the render that issued the request;
\* the functional update of alertedFalls starts from the current set.  A new
\* Set object re-runs the poll effect: the old interval is cleared, and
\* checkEmergencyStatus is called and the interval set with the new closure.
EmergencyResponseOk(i, data) ==
    LET closure == emergencyInFlight[i]
        pending == RemoveAt(emergencyInFlight, i)
        fallId == data.latest_fall.timestamp
    IN  /\ IF PlaysSound(data, closure)
           THEN /\ soundCount' = [soundCount EXCEPT ![fallId] = @ + 1]
                /\ IF phase = "mounted"
                   THEN /\ emergencyStatus' = StatusAfterResponse(emergencyStatus, data)
                        /\ emergencyAlertShown' = TRUE
                        /\ alertedFalls' = AddAlerted(alertedFalls, fallId)
                        /\ emergencyInFlight' = EmergencyEffectRequests(
                               pending, alertedFalls', dismissedFalls)
                        /\ emergencyInterval' = EmergencyEffectInterval(
                               alertedFalls', dismissedFalls)
                        /\ emergencyTimers' = TimersAfterEffect(TimersAfterCleanup(emergencyTimers))
                   ELSE /\ emergencyInFlight' = pending
                        /\ UNCHANGED <<emergencyStatus, emergencyAlertShown,
                                       alertedFalls, emergencyInterval, emergencyTimers>>
           ELSE /\ emergencyStatus' =
                       IF phase = "mounted"
                       THEN StatusAfterResponse(emergencyStatus, data)
                       ELSE emergencyStatus
                /\ emergencyInFlight' = pending
                /\ UNCHANGED <<soundCount, emergencyAlertShown, alertedFalls,
                               emergencyInterval, emergencyTimers>>
        /\ noResponseSeen' =
               IF ReportsNoResponse(data)
               THEN noResponseSeen \cup {fallId} ELSE noResponseSeen
        /\ UNCHANGED <<otherVars, phase, streamBaseUrl, streamVars, modalVars, dismissedFalls,
                       streamInterval, streamInFlight, dismissCalls>>
        /\ IF phase = "mounted"
           THEN /\ lastResponse' = data
                /\ scenario' = ScenarioAfter(data, DisplayedCards')
                /\ staleRequests' = StaleAfterApplied(staleRequests, i)
           ELSE /\ staleRequests' = StaleAfterDropped(staleRequests, i)
                /\ UNCHANGED <<lastResponse, scenario>>
        /\ timeSinceFall' = TimeSinceFallAfterCommit(phase = "mounted")

\* A non-2xx response or a network error of the i-th emergency-status GET:
\* the catch block logs and keeps the last known state.
EmergencyResponseFail(i, kind) ==
    /\ emergencyInFlight' = RemoveAt(emergencyInFlight, i)
    /\ emergencyStatus' = StatusAfterFailure(emergencyStatus)
    /\ staleRequests' = StaleAfterDropped(staleRequests, i)
    /\ UNCHANGED <<otherVars, phase, streamBaseUrl, streamVars, modalVars, alertedFalls,
                   emergencyAlertShown, dismissedFalls, streamInterval,
                   emergencyInterval, emergencyTimers, streamInFlight, soundCount, noResponseSeen,
                   dismissCalls, lastResponse, scenario>>
    /\ UNCHANGED timeSinceFall

\* Variant: new Set().add(fallTimestamp), dropping the earlier dismissals.
AddDismissedOnly(prev, fallTimestamp) == {fallTimestamp}

\* setDismissedFalls(prev => new Set(prev).add(fallTimestamp))
AddDismissed(prev, fallTimestamp) == prev \cup {fallTimestamp}

\* Variant: FallWaitingAlert is given an onDismiss button too.
DismissibleWithWaiting == {"Waiting", "Confirmed", "Emergency"}

\* The cards that carry a Dismiss button.
DismissibleCards == {"Confirmed", "Emergency"}

\* Variant: dismissFall also forgets that the fall was alerted.
DismissFallForgettingAlert ==
    LET fallTimestamp == emergencyStatus.latest_fall.timestamp
    IN  /\ phase = "mounted"
        /\ DisplayedCards \cap DismissibleCards # {}
        /\ Len(emergencyInFlight) < MaxInFlight
        /\ dismissedFalls' = AddDismissed(dismissedFalls, fallTimestamp)
        /\ alertedFalls' = alertedFalls \ {fallTimestamp}
        /\ emergencyAlertShown' = FALSE
        /\ emergencyInFlight' = EmergencyEffectRequests(
               emergencyInFlight, alertedFalls', dismissedFalls')
        /\ emergencyInterval' = EmergencyEffectInterval(alertedFalls', dismissedFalls')
        /\ emergencyTimers' = TimersAfterEffect(TimersAfterCleanup(emergencyTimers))
        /\ dismissCalls' = dismissCalls \cup {fallTimestamp}
        /\ UNCHANGED <<otherVars, phase, streamBaseUrl, streamVars, modalVars, emergencyStatus,
                       streamInterval, streamInFlight, soundCount,
                       noResponseSeen, lastResponse, scenario, staleRequests>>
        /\ timeSinceFall' = TimeSinceFallAfterCommit(TRUE)

\* onDismiss of the card on screen: dismissFall(emergencyStatus.latest_fall.timestamp).
\* The new Set object re-runs the poll effect, as above.
DismissFall ==
    LET fallTimestamp == emergencyStatus.latest_fall.timestamp
    IN  /\ phase = "mounted"
        /\ DisplayedCards \cap DismissibleCards # {}
        /\ Len(emergencyInFlight) < MaxInFlight
        /\ dismissedFalls' = AddDismissed(dismissedFalls, fallTimestamp)
        /\ emergencyAlertShown' = FALSE
        /\ emergencyInFlight' = EmergencyEffectRequests(
               emergencyInFlight, alertedFalls, dismissedFalls')
        /\ emergencyInterval' = EmergencyEffectInterval(alertedFalls, dismissedFalls')
        /\ emergencyTimers' = TimersAfterEffect(TimersAfterCleanup(emergencyTimers))
        /\ dismissCalls' = dismissCalls \cup {fallTimestamp}
        /\ UNCHANGED <<otherVars, phase, streamBaseUrl, streamVars, modalVars, emergencyStatus,
                       alertedFalls, streamInterval, streamInFlight, soundCount,
                       noResponseSeen, lastResponse, scenario, staleRequests>>
        /\ timeSinceFall' = TimeSinceFallAfterCommit(TRUE)

\* Variant: the emergency poll effect returns no cleanup; its interval stays set.
EmergencyIntervalLeaked == emergencyInterval

\* The interval handles left once the effects' cleanups have run.
StreamIntervalAfterCleanup == FALSE
EmergencyIntervalAfterCleanup == NoInterval

\* The view is torn down: both effects' cleanups clear their interval.
Unmount ==
    /\ phase = "mounted"
    /\ phase' = "unmounted"
    /\ streamInterval' = StreamIntervalAfterCleanup
    /\ emergencyInterval' = EmergencyIntervalAfterCleanup
    /\ emergencyTimers' = TimersAfterCleanup(emergencyTimers)
    /\ UNCHANGED <<otherVars, streamBaseUrl, streamVars, modalVars, fallVars, streamInFlight,
                   emergencyInFlight, soundCount, historyVars>>
    /\ timeSinceFall' = TimeSinceFallAfterCommit(TRUE)

-----------------------------------------------------------------------------
(* Time and the countdown's interval *)

\* Time passes.
ClockAdvance ==
    /\ now + ClockStep <= MaxNow
    /\ now' = now + ClockStep
    /\ UNCHANGED <<homeVars, authVars, reminderVars, videoVars>>

\* Variant: the countdown itself turns an expired wait into an emergency.
StatusExpiringLocally(status, sinceFall) ==
    IF SecondsRemaining(sinceFall) = 0
    THEN [status EXCEPT !.latest_fall.user_response = "NO_RESPONSE"]
    ELSE status

\* What update() leaves in the fall status of HomePage: FallWaitingAlert holds
\* the fall as a prop and sets its own timeSinceFall only.
StatusAfterCountdown(status, sinceFall) == status

\* The 1 s interval of FallWaitingAlert fires:
\* update = () => setTimeSinceFall(getTimeSinceFall(fall.timestamp)).
CountdownTick ==
    /\ WaitingAlertMounted
    /\ timeSinceFall' = GetTimeSinceFall(emergencyStatus.latest_fall.timestamp)
    /\ emergencyStatus' = StatusAfterCountdown(emergencyStatus, timeSinceFall')
    /\ UNCHANGED <<otherVars, phase, streamBaseUrl, streamVars, modalVars,
                   alertedFalls, emergencyAlertShown, dismissedFalls,
                   streamInterval, emergencyInterval, emergencyTimers, streamInFlight,
                   emergencyInFlight, soundCount, historyVars>>

-----------------------------------------------------------------------------
(* The live feed modal *)

\* The <img> of the MJPEG stream is rendered.
StreamImgRendered ==
    phase = "mounted" /\ showLiveFeed /\ streamBaseUrl # "" /\ streamError = "null"

\* The Live Feed button, shown while connected; the effect on showLiveFeed
\* resets the stream state when the modal opens.
OpenLiveFeed ==
    /\ phase = "mounted"
    /\ isConnected
    /\ ~showLiveFeed
    /\ showLiveFeed' = TRUE
    /\ streamError' = "null"
    /\ streamLoaded' = FALSE
    /\ UNCHANGED <<otherVars, phase, streamBaseUrl, streamVars, fallVars, streamInterval,
                   emergencyInterval, emergencyTimers, streamInFlight, emergencyInFlight,
                   soundCount, historyVars>>
    /\ timeSinceFall' = TimeSinceFallAfterCommit(TRUE)

\* The X and Close Feed buttons.
CloseLiveFeed ==
    /\ phase = "mounted"
    /\ showLiveFeed
    /\ showLiveFeed' = FALSE
    /\ UNCHANGED <<otherVars, phase, streamBaseUrl, streamVars, streamError, streamLoaded,
                   fallVars, streamInterval, emergencyInterval, emergencyTimers, streamInFlight,
                   emergencyInFlight, soundCount, historyVars>>
    /\ timeSinceFall' = TimeSinceFallAfterCommit(TRUE)

\* onLoad of the <img>.
StreamImgLoad ==
    /\ StreamImgRendered
    /\ streamLoaded' = TRUE
    /\ streamError' = "null"
    /\ UNCHANGED <<otherVars, phase, streamBaseUrl, streamVars, showLiveFeed, fallVars,
                   streamInterval, emergencyInterval, emergencyTimers, streamInFlight,
                   emergencyInFlight, soundCount, historyVars>>
    /\ timeSinceFall' = TimeSinceFallAfterCommit(modalVars' # modalVars)

\* onError of the <img>.
StreamImgError ==
    /\ StreamImgRendered
    /\ streamError' = "Unable to load stream. Check if camera is running."
    /\ streamLoaded' = FALSE
    /\ UNCHANGED <<otherVars, phase, streamBaseUrl, streamVars, showLiveFeed, fallVars,
                   streamInterval, emergencyInterval, emergencyTimers, streamInFlight,
                   emergencyInFlight, soundCount, historyVars>>
    /\ timeSinceFall' = TimeSinceFallAfterCommit(TRUE)

\* The Retry button of the error state.
RetryStream ==
    /\ phase = "mounted"
    /\ showLiveFeed
    /\ streamError # "null"
    /\ streamError' = "null"
    /\ streamLoaded' = FALSE
    /\ UNCHANGED <<otherVars, phase, streamBaseUrl, streamVars, showLiveFeed, fallVars,
                   streamInterval, emergencyInterval, emergencyTimers, streamInFlight,
                   emergencyInFlight, soundCount, historyVars>>
    /\ timeSinceFall' = TimeSinceFallAfterCommit(TRUE)

-----------------------------------------------------------------------------
(* The session: AuthProvider, ClientLayout, the sign-in page, the Logout button *)

\* Most auth requests awaiting their response at once.
MaxAuthInFlight == 2

\* Variant: saveStored keeps the token and drops the user.
SaveStoredTokenOnly(t, u) == <<t, "null">>

\* saveStored: localStorage.setItem(STORAGE_KEY, JSON.stringify({ token, user }))
SaveStored(t, u) == <<t, u>>

\* loadStored: JSON.parse of the item, null when there is none.
LoadStored(raw) ==
    IF raw = NoItem
    THEN [isNull |-> TRUE, token |-> "null", user |-> "null"]
    ELSE [isNull |-> FALSE, token |-> raw[1], user |-> raw[2]]

\* if (stored?.token && stored?.user)
StoredSessionUsable(stored) ==
    ~stored.isNull /\ stored.token # "null" /\ stored.user # "null"

\* Variant: a layout whose effect never calls router.replace.
LayoutNeverRedirects(loading, tok, path) == FALSE

\* Variant: the layout's effect without its if (loading) return.
LayoutRedirectsWhileLoading(loading, tok, path) ==
    tok = "null" /\ path # "/auth"

\* ClientLayout's effect: if (loading) return; if (!token && pathname !== '/auth')
LayoutRedirects(loading, tok, path) ==
    ~loading /\ tok = "null" /\ path # "/auth"

\* The route once the layout's effect has run for a commit.
PathAfterLayoutEffect(loading, tok, path) ==
    IF LayoutRedirects(loading, tok, path) THEN "/auth" ELSE path

\* AuthProvider's mount effect: restore the stored session, then setLoading(false).
AuthRestore ==
    LET stored == LoadStored(authStorage)
    IN  /\ authPhase = "init"
        /\ authPhase' = "ready"
        /\ IF StoredSessionUsable(stored)
           THEN user' = stored.user /\ token' = stored.token
           ELSE UNCHANGED <<user, token>>
        /\ authLoading' = FALSE
        /\ pathname' = PathAfterLayoutEffect(authLoading', token', pathname)
        /\ lastAuthEvent' = [lastAuthEvent EXCEPT !.restored = TRUE]
        /\ layoutReplaced' = LayoutRedirects(authLoading', token', pathname)
        /\ UNCHANGED <<homeVars, now, reminderVars, videoVars, authStorage, authInFlight, formLoading,
                       formError, unhandledRejection>>

\* The browser loads the application anew at some route: every component is
\* constructed again, requests of the old page are never answered, and
\* localStorage is what it was.
Reload(path) ==
    /\ authPhase = "ready"
    /\ authPhase' = "init"
    /\ user' = "null"
    /\ token' = "null"
    /\ authLoading' = TRUE
    /\ authInFlight' = <<>>
    /\ path \in Paths
    /\ pathname' = PathAfterLayoutEffect(authLoading', token', path)
    /\ formLoading' = FALSE
    /\ formError' = "null"
    /\ layoutReplaced' = LayoutRedirects(authLoading', token', path)
    /\ UNCHANGED <<homeVars, now, reminderVars, videoVars, authStorage, unhandledRejection, lastAuthEvent>>

\* handleSubmit of the sign-in form up to its await of login() or register().
SubmitAuthForm(mode) ==
    /\ authPhase = "ready"
    /\ pathname = "/auth"
    /\ user = "null"
    /\ ~formLoading
    /\ Len(authInFlight) < MaxAuthInFlight
    /\ formError' = "null"
    /\ formLoading' = TRUE
    /\ authInFlight' = Append(authInFlight, [kind |-> mode, token |-> "null"])
    /\ layoutReplaced' = FALSE
    /\ UNCHANGED <<homeVars, now, reminderVars, videoVars, authPhase, user, token, authLoading,
                   authStorage, pathname, unhandledRejection, lastAuthEvent>>

\* A 2xx response to POST /auth/login or /auth/register: login()/register()
\* set and store the session, then handleSubmit pushes '/'.
SignInResponseOk(i, session) ==
    /\ i \in 1..Len(authInFlight)
    /\ authInFlight[i].kind \in {"login", "register"}
    /\ authInFlight' = RemoveAt(authInFlight, i)
    /\ user' = session.user
    /\ token' = session.token
    /\ authStorage' = SaveStored(session.token, session.user)
    /\ pathname' = PathAfterLayoutEffect(authLoading, token', "/")
    /\ formLoading' = FALSE
    /\ lastAuthEvent' = AuthEvent(authInFlight[i].kind, session.token, session.user)
    /\ layoutReplaced' = LayoutRedirects(authLoading, token', "/")
    /\ UNCHANGED <<homeVars, now, reminderVars, videoVars, authPhase, authLoading, formError,
                   unhandledRejection>>

\* A failed sign-in request: login()/register() reject, handleSubmit's catch
\* sets the form's error.
SignInResponseFail(i, kind) ==
    /\ i \in 1..Len(authInFlight)
    /\ authInFlight[i].kind \in {"login", "register"}
    /\ authInFlight' = RemoveAt(authInFlight, i)
    /\ formError' = "Failed"
    /\ formLoading' = FALSE
    /\ layoutReplaced' = FALSE
    /\ UNCHANGED <<homeVars, now, reminderVars, videoVars, authPhase, user, token, authLoading,
                   authStorage, pathname, unhandledRejection, lastAuthEvent>>

\* refreshMe up to its await: if (!token) return; GET /auth/me with the token
\* of the render the callback belongs to.
CallRefreshMe ==
    /\ authPhase = "ready"
    /\ token # "null"
    /\ Len(authInFlight) < MaxAuthInFlight
    /\ authInFlight' = Append(authInFlight, [kind |-> "me", token |-> token])
    /\ layoutReplaced' = FALSE
    /\ UNCHANGED <<homeVars, now, reminderVars, videoVars, authPhase, user, token, authLoading,
                   authStorage, pathname, formLoading, formError,
                   unhandledRejection, lastAuthEvent>>

\* A 2xx response to GET /auth/me: setUser(data.user); saveStored({ token, user }).
RefreshMeOk(i, u) ==
    /\ i \in 1..Len(authInFlight)
    /\ authInFlight[i].kind = "me"
    /\ authInFlight' = RemoveAt(authInFlight, i)
    /\ user' = u
    /\ authStorage' = SaveStored(authInFlight[i].token, u)
    /\ lastAuthEvent' = AuthEvent("refreshed", authInFlight[i].token, u)
    /\ layoutReplaced' = FALSE
    /\ UNCHANGED <<homeVars, now, reminderVars, videoVars, authPhase, token, authLoading, pathname,
                   formLoading, formError, unhandledRejection>>

\* A failed GET /auth/me: the catch block clears the session.
RefreshMeFail(i, kind) ==
    /\ i \in 1..Len(authInFlight)
    /\ authInFlight[i].kind = "me"
    /\ authInFlight' = RemoveAt(authInFlight, i)
    /\ user' = "null"
    /\ token' = "null"
    /\ authStorage' = NoItem
    /\ pathname' = PathAfterLayoutEffect(authLoading, token', pathname)
    /\ lastAuthEvent' = AuthEvent("rejected", "null", "null")
    /\ layoutReplaced' = LayoutRedirects(authLoading, token', pathname)
    /\ UNCHANGED <<homeVars, now, reminderVars, videoVars, authPhase, authLoading, formLoading, formError,
                   unhandledRejection>>

\* The Logout button of the navigation bar, rendered while there is a token:
\* logout() up to its await of POST /auth/logout.
ClickLogout ==
    /\ authPhase = "ready"
    /\ token # "null"
    /\ Len(authInFlight) < MaxAuthInFlight
    /\ authInFlight' = Append(authInFlight, [kind |-> "logout", token |-> token])
    /\ layoutReplaced' = FALSE
    /\ UNCHANGED <<homeVars, now, reminderVars, videoVars, authPhase, user, token, authLoading,
                   authStorage, pathname, formLoading, formError,
                   unhandledRejection, lastAuthEvent>>

\* A 2xx response to POST /auth/logout: the finally block clears the session,
\* the promise resolves and the button's then() pushes '/auth'.
LogoutResponseOk(i) ==
    /\ i \in 1..Len(authInFlight)
    /\ authInFlight[i].kind = "logout"
    /\ authInFlight' = RemoveAt(authInFlight, i)
    /\ user' = "null"
    /\ token' = "null"
    /\ authStorage' = NoItem
    /\ pathname' = PathAfterLayoutEffect(authLoading, token', "/auth")
    /\ lastAuthEvent' = AuthEvent("logout", "null", "null")
    /\ layoutReplaced' = LayoutRedirects(authLoading, token', "/auth")
    /\ UNCHANGED <<homeVars, now, reminderVars, videoVars, authPhase, authLoading, formLoading, formError,
                   unhandledRejection>>

\* logout() called through the context while there is no token: the request
\* is skipped and the finally block runs at once.
LogoutSkipped ==
    /\ authPhase = "ready"
    /\ token = "null"
    /\ user' = "null"
    /\ token' = "null"
    /\ authStorage' = NoItem
    /\ pathname' = PathAfterLayoutEffect(authLoading, token', pathname)
    /\ lastAuthEvent' = AuthEvent("logoutSkipped", "null", user)
    /\ layoutReplaced' = LayoutRedirects(authLoading, token', pathname)
    /\ UNCHANGED <<homeVars, now, reminderVars, videoVars, authPhase, authLoading,
                   authInFlight, formLoading, formError, unhandledRejection>>

\* Variant: logout clears the session after the request instead of in a
\* finally block, so a failed request leaves the session in place.
LogoutResponseFailKeepingSession(i, kind) ==
    /\ i \in 1..Len(authInFlight)
    /\ authInFlight[i].kind = "logout"
    /\ authInFlight' = RemoveAt(authInFlight, i)
    /\ unhandledRejection' = TRUE
    /\ lastAuthEvent' = AuthEvent("logout", "null", "null")
    /\ layoutReplaced' = FALSE
    /\ UNCHANGED <<homeVars, now, reminderVars, videoVars, authPhase, user, token,
                   authStorage, pathname, authLoading, formLoading, formError>>

\* A failed POST /auth/logout: the finally block clears the session and the
\* error leaves logout(), which has no catch; the button's then() has no
\* rejection handler, so its callback is skipped and the rejection is unhandled.
LogoutResponseFail(i, kind) ==
    /\ i \in 1..Len(authInFlight)
    /\ authInFlight[i].kind = "logout"
    /\ authInFlight' = RemoveAt(authInFlight, i)
    /\ user' = "null"
    /\ token' = "null"
    /\ authStorage' = NoItem
    /\ pathname' = PathAfterLayoutEffect(authLoading, token', pathname)
    /\ unhandledRejection' = TRUE
    /\ lastAuthEvent' = AuthEvent("logout", "null", "null")
    /\ layoutReplaced' = LayoutRedirects(authLoading, token', pathname)
    /\ UNCHANGED <<homeVars, now, reminderVars, videoVars, authPhase, authLoading, formLoading, formError>>

\* A tab of the navigation bar, rendered while there is a token: router.push.
Navigate(path) ==
    /\ authPhase = "ready"
    /\ token # "null"
    /\ path \in Paths \ {"/auth"}
    /\ pathname' = PathAfterLayoutEffect(authLoading, token, path)
    /\ layoutReplaced' = LayoutRedirects(authLoading, token, path)
    /\ UNCHANGED <<homeVars, now, reminderVars, videoVars, authPhase, user, token, authLoading,
                   authStorage, authInFlight, formLoading, formError,
                   unhandledRejection, lastAuthEvent>>

\* The sign-in page rendered for a signed-in user: its 2 s timer pushes '/'.
AuthPageAutoRedirect ==
    /\ authPhase = "ready"
    /\ pathname = "/auth"
    /\ user # "null"
    /\ pathname' = PathAfterLayoutEffect(authLoading, token, "/")
    /\ layoutReplaced' = LayoutRedirects(authLoading, token, "/")
    /\ UNCHANGED <<homeVars, now, reminderVars, videoVars, authPhase, user, token, authLoading,
                   authStorage, authInFlight, formLoading, formError,
                   unhandledRejection, lastAuthEvent>>

-----------------------------------------------------------------------------
(* The reminders page (RemindersPage) *)

\* Number of distinct reminder ids the backend hands out.
NumReminders == 2
\* Most reminder requests awaiting their response at once.
MaxRemInFlight == 2
\* Most device webhook calls pending when a further request is issued.
MaxWebhookInFlight == 1

ReminderIds == 1..NumReminders

\* A reminder as the page holds it: its id and the revision of its content.
Reminder == [id : ReminderIds, rev : {0, 1}]

\* The ids of the reminders of a list.
IdsOf(list) == {list[k].id : k \in 1..Len(list)}

\* The lists GET /reminders answers with.
ReminderLists ==
    {<<>>, <<[id |-> 1, rev |-> 0]>>, <<[id |-> 1, rev |-> 0], [id |-> 2, rev |-> 0]>>}

\* A request issued by the page; live while the page that issued it is mounted.
ReminderRequest(op, id, tok) == [op |-> op, id |-> id, token |-> tok, live |-> TRUE]

\* The requests of a page that is gone: their continuations still run, and
\* their state setters do nothing.
Orphaned(requests) == [k \in 1..Len(requests) |-> [requests[k] EXCEPT !.live = FALSE]]

\* prev.filter(r => r.id !== id)
WithoutReminder(list, id) == SelectSeq(list, LAMBDA r : r.id # id)

\* prev.map(r => r.id === editingId ? mapped : r)
WithReplaced(list, id, mapped) ==
    [k \in 1..Len(list) |-> IF list[k].id = id THEN mapped ELSE list[k]]

\* triggerDeviceWebhook: silently skipped when no device URL is configured.
WebhookTriggered == streamBaseUrl # ""

\* The router has rendered the reminders page.
RemindersMount ==
    /\ authPhase = "ready"
    /\ pathname = "/reminders"
    /\ remPhase = "none"
    /\ remPhase' = "mounted"
    /\ UNCHANGED <<homeVars, now, authVars, videoVars, remEffectToken, reminders,
                   remLoading, remError, isOpen, editingId, remInFlight,
                   webhookInFlight, lastReminderOutcome>>

\* The router has left the reminders page: its state is gone.
RemindersUnmount ==
    /\ pathname # "/reminders"
    /\ remPhase = "mounted"
    /\ remPhase' = "none"
    /\ remEffectToken' = "unset"
    /\ reminders' = <<>>
    /\ remLoading' = TRUE
    /\ remError' = "null"
    /\ isOpen' = FALSE
    /\ editingId' = 0
    /\ remInFlight' = Orphaned(remInFlight)
    /\ UNCHANGED <<homeVars, now, authVars, videoVars, webhookInFlight, lastReminderOutcome>>

\* The effect on [token]: if (!token) return; loadReminders() up to its await.
RemindersLoadEffect ==
    /\ remPhase = "mounted"
    /\ remEffectToken # token
    /\ remEffectToken' = token
    /\ IF token = "null"
       THEN UNCHANGED <<remLoading, remError, remInFlight>>
       ELSE /\ Len(remInFlight) < MaxRemInFlight
            /\ remLoading' = TRUE
            /\ remError' = "null"
            /\ remInFlight' = Append(remInFlight, ReminderRequest("load", 0, token))
    /\ UNCHANGED <<homeVars, now, authVars, videoVars, remPhase, reminders, isOpen,
                   editingId, webhookInFlight, lastReminderOutcome>>

\* openForm: the + button.
OpenForm ==
    /\ remPhase = "mounted"
    /\ isOpen' = TRUE
    /\ editingId' = 0
    /\ UNCHANGED <<homeVars, now, authVars, videoVars, remPhase, remEffectToken, reminders,
                   remLoading, remError, remInFlight, webhookInFlight,
                   lastReminderOutcome>>

\* openEdit of a reminder of the list.
OpenEdit(id) ==
    /\ remPhase = "mounted"
    /\ id \in IdsOf(reminders)
    /\ isOpen' = TRUE
    /\ editingId' = id
    /\ UNCHANGED <<homeVars, now, authVars, videoVars, remPhase, remEffectToken, reminders,
                   remLoading, remError, remInFlight, webhookInFlight,
                   lastReminderOutcome>>

\* addReminder with a valid form, up to its await: PATCH when editing, else POST.
SubmitReminder ==
    /\ remPhase = "mounted"
    /\ isOpen
    /\ token # "null"
    /\ Len(remInFlight) < MaxRemInFlight
    /\ webhookInFlight < MaxWebhookInFlight
    /\ remError' = "null"
    /\ remInFlight' = Append(remInFlight,
           ReminderRequest(IF editingId # 0 THEN "update" ELSE "create",
                           editingId, token))
    /\ UNCHANGED <<homeVars, now, authVars, videoVars, remPhase, remEffectToken, reminders,
                   remLoading, isOpen, editingId, webhookInFlight,
                   lastReminderOutcome>>

\* deleteReminder(id) of a reminder of the list, up to its await.
ClickDelete(id) ==
    /\ remPhase = "mounted"
    /\ id \in IdsOf(reminders)
    /\ token # "null"
    /\ Len(remInFlight) < MaxRemInFlight
    /\ webhookInFlight < MaxWebhookInFlight
    /\ remError' = "null"
    /\ remInFlight' = Append(remInFlight, ReminderRequest("delete", id, token))
    /\ UNCHANGED <<homeVars, now, authVars, videoVars, remPhase, remEffectToken, reminders,
                   remLoading, isOpen, editingId, webhookInFlight,
                   lastReminderOutcome>>

\* A 2xx response to GET /reminders: try body, then finally.
LoadResponseOk(i, list) ==
    /\ i \in 1..Len(remInFlight)
    /\ remInFlight[i].op = "load"
    /\ remInFlight' = RemoveAt(remInFlight, i)
    /\ IF remInFlight[i].live
       THEN reminders' = list /\ remLoading' = FALSE
       ELSE UNCHANGED <<reminders, remLoading>>
    /\ UNCHANGED <<homeVars, now, authVars, videoVars, remPhase, remEffectToken, remError,
                   isOpen, editingId, webhookInFlight, lastReminderOutcome>>

\* A failed GET /reminders: catch, then finally.
LoadResponseFail(i, kind) ==
    /\ i \in 1..Len(remInFlight)
    /\ remInFlight[i].op = "load"
    /\ remInFlight' = RemoveAt(remInFlight, i)
    /\ IF remInFlight[i].live
       THEN remError' = "error" /\ remLoading' = FALSE
       ELSE UNCHANGED <<remError, remLoading>>
    /\ UNCHANGED <<homeVars, now, authVars, videoVars, remPhase, remEffectToken, reminders,
                   isOpen, editingId, webhookInFlight, lastReminderOutcome>>

\* The list once a create, update or delete was answered with 2xx.
RemindersAfterSuccess(prev, request, mapped) ==
    CASE request.op = "create" -> <<mapped>> \o prev
      [] request.op = "update" -> WithReplaced(prev, request.id, mapped)
      [] request.op = "delete" -> WithoutReminder(prev, request.id)

\* A 2xx response to the POST, PATCH or DELETE of a reminder: the list is
\* updated, the form closed after a create or update, and the device webhook
\* triggered.  `mapped` is the reminder the response body maps to.
ReminderResponseOk(i, mapped) ==
    /\ i \in 1..Len(remInFlight)
    /\ remInFlight[i].op \in {"create", "update", "delete"}
    /\ remInFlight[i].op = "update" => mapped.id = remInFlight[i].id
    /\ remInFlight[i].op = "create" => mapped.id \notin IdsOf(reminders)
    /\ remInFlight[i].op = "delete" => mapped = [id |-> remInFlight[i].id, rev |-> 0]
    /\ remInFlight' = RemoveAt(remInFlight, i)
    /\ IF remInFlight[i].live
       THEN /\ reminders' = RemindersAfterSuccess(reminders, remInFlight[i], mapped)
            /\ IF remInFlight[i].op = "delete"
               THEN UNCHANGED <<isOpen, editingId>>
               ELSE isOpen' = FALSE /\ editingId' = 0
            /\ lastReminderOutcome' = [op |-> remInFlight[i].op, ok |-> TRUE]
       ELSE UNCHANGED <<reminders, isOpen, editingId, lastReminderOutcome>>
    /\ webhookInFlight' = IF WebhookTriggered THEN webhookInFlight + 1
                                              ELSE webhookInFlight
    /\ UNCHANGED <<homeVars, now, authVars, videoVars, remPhase, remEffectToken, remLoading,
                   remError>>

\* Variant: the list is changed before the request is known to have worked.
RemindersOptimisticallyChanged(prev, request) ==
    IF request.op = "delete" THEN WithoutReminder(prev, request.id) ELSE prev

\* The list once a create, update or delete has failed: the catch blocks of
\* addReminder and deleteReminder call setError only.
RemindersAfterFailure(prev, request) == prev

\* A failed POST, PATCH or DELETE of a reminder: fetchJson throws before
\* setReminders and triggerDeviceWebhook are reached; the catch block sets
\* the error.
ReminderResponseFail(i, kind) ==
    /\ i \in 1..Len(remInFlight)
    /\ remInFlight[i].op \in {"create", "update", "delete"}
    /\ remInFlight' = RemoveAt(remInFlight, i)
    /\ IF remInFlight[i].live
       THEN /\ remError' = "error"
            /\ reminders' = RemindersAfterFailure(reminders, remInFlight[i])
            /\ lastReminderOutcome' = [op |-> remInFlight[i].op, ok |-> FALSE]
       ELSE UNCHANGED <<remError, reminders, lastReminderOutcome>>
    /\ UNCHANGED <<homeVars, now, authVars, videoVars, remPhase, remEffectToken, remLoading,
                   isOpen, editingId, webhookInFlight>>

\* The POST to /webhook/reminder settles; a failure is caught and logged.
WebhookSettled(ok) ==
    /\ webhookInFlight > 0
    /\ webhookInFlight' = webhookInFlight - 1
    /\ UNCHANGED <<homeVars, now, authVars, videoVars, remPhase, remEffectToken, reminders,
                   remLoading, remError, isOpen, editingId, remInFlight,
                   lastReminderOutcome>>

-----------------------------------------------------------------------------

Next ==
    \/ Mount
    \/ StreamTick
    \/ \E data \in StreamStatus : StreamResponseOk(data)
    \/ \E kind \in FailureKinds : StreamResponseFail(kind)
    \/ EmergencyTick
    \/ \E i \in 1..Len(emergencyInFlight), data \in EmergencyStatus :
           EmergencyResponseOk(i, data)
    \/ \E i \in 1..Len(emergencyInFlight), kind \in FailureKinds :
           EmergencyResponseFail(i, kind)
    \/ DismissFall
    \/ Unmount
    \/ OpenLiveFeed
    \/ CloseLiveFeed
    \/ StreamImgLoad
    \/ StreamImgError
    \/ RetryStream

\* The whole page.
Spec == Init /\ [][Next]_vars

\* The fall detection lifecycle alone: the view's lifecycle, the emergency
\* poller and the card section.  Its actions neither read nor write the state
\* of the stream poller and the live feed modal.
NextFall ==
    \/ Mount
    \/ EmergencyTick
    \/ \E i \in 1..Len(emergencyInFlight), data \in EmergencyStatus :
           EmergencyResponseOk(i, data)
    \/ \E i \in 1..Len(emergencyInFlight), kind \in FailureKinds :
           EmergencyResponseFail(i, kind)
    \/ DismissFall
    \/ Unmount

SpecFall == Init /\ [][NextFall]_vars

\* The two pollers and the view's lifecycle, without the live feed modal.
NextPollers ==
    \/ Mount
    \/ StreamTick
    \/ \E data \in StreamStatus : StreamResponseOk(data)
    \/ \E kind \in FailureKinds : StreamResponseFail(kind)
    \/ EmergencyTick
    \/ \E i \in 1..Len(emergencyInFlight), data \in EmergencyStatus :
           EmergencyResponseOk(i, data)
    \/ \E i \in 1..Len(emergencyInFlight), kind \in FailureKinds :
           EmergencyResponseFail(i, kind)
    \/ DismissFall
    \/ Unmount

SpecPollers == Init /\ [][NextPollers]_vars

\* The device connection alone: the view's lifecycle, the stream poller and
\* the live feed modal.
NextStream ==
    \/ Mount
    \/ StreamTick
    \/ \E data \in StreamStatus : StreamResponseOk(data)
    \/ \E kind \in FailureKinds : StreamResponseFail(kind)
    \/ Unmount
    \/ OpenLiveFeed
    \/ CloseLiveFeed
    \/ StreamImgLoad
    \/ StreamImgError
    \/ RetryStream

SpecStream == Init /\ [][NextStream]_vars

\* The statuses of a backend that has no fall to report.
StatusWithoutFall == {status \in EmergencyStatus : status.latest_fall.isNull}

\* The device connection as a whole: both pollers and the live feed modal, with
\* a backend that reports no fall.
NextConnection ==
    \/ Mount
    \/ StreamTick
    \/ \E data \in StreamStatus : StreamResponseOk(data)
    \/ \E kind \in FailureKinds : StreamResponseFail(kind)
    \/ EmergencyTick
    \/ \E i \in 1..Len(emergencyInFlight), data \in StatusWithoutFall :
           EmergencyResponseOk(i, data)
    \/ \E i \in 1..Len(emergencyInFlight), kind \in FailureKinds :
           EmergencyResponseFail(i, kind)
    \/ Unmount
    \/ OpenLiveFeed
    \/ CloseLiveFeed
    \/ StreamImgLoad
    \/ StreamImgError
    \/ RetryStream

SpecConnection == Init /\ [][NextConnection]_vars

\* The statuses of a monitoring backend whose only fall is the first one.
StatusOfFirstFall ==
    {status \in EmergencyStatus :
        /\ status.monitoring
        /\ status.latest_fall.isNull \/ status.latest_fall.timestamp = 1}

\* The Waiting card over time: the fall detection lifecycle of one fall, the
\* clock and the countdown's interval.
NextCountdown ==
    \/ Mount
    \/ EmergencyTick
    \/ \E i \in 1..Len(emergencyInFlight), data \in StatusOfFirstFall :
           EmergencyResponseOk(i, data)
    \/ \E i \in 1..Len(emergencyInFlight), kind \in FailureKinds :
           EmergencyResponseFail(i, kind)
    \/ DismissFall
    \/ Unmount
    \/ ClockAdvance
    \/ CountdownTick

SpecCountdown == Init /\ [][NextCountdown]_vars

\* The session: the provider, the layout's redirect, the sign-in form, the
\* Logout button and reloads of the application.
NextAuth ==
    \/ AuthRestore
    \/ \E path \in Paths : Reload(path)
    \/ \E mode \in {"login", "register"} : SubmitAuthForm(mode)
    \/ \E i \in 1..Len(authInFlight), session \in Sessions : SignInResponseOk(i, session)
    \/ \E i \in 1..Len(authInFlight), kind \in FailureKinds : SignInResponseFail(i, kind)
    \/ CallRefreshMe
    \/ \E i \in 1..Len(authInFlight), u \in Users : RefreshMeOk(i, u)
    \/ \E i \in 1..Len(authInFlight), kind \in FailureKinds : RefreshMeFail(i, kind)
    \/ ClickLogout
    \/ \E i \in 1..Len(authInFlight) : LogoutResponseOk(i)
    \/ \E i \in 1..Len(authInFlight), kind \in FailureKinds : LogoutResponseFail(i, kind)
    \/ LogoutSkipped
    \/ \E path \in Paths : Navigate(path)
    \/ AuthPageAutoRedirect

SpecAuth == Init /\ [][NextAuth]_vars

\* The reminders page of a user who signs in and moves between the tabs.
NextReminders ==
    \/ AuthRestore
    \/ SubmitAuthForm("login")
    \/ \E i \in 1..Len(authInFlight), session \in Sessions : SignInResponseOk(i, session)
    \/ \E path \in Paths : Navigate(path)
    \/ RemindersMount
    \/ RemindersUnmount
    \/ RemindersLoadEffect
    \/ OpenForm
    \/ \E id \in ReminderIds : OpenEdit(id)
    \/ SubmitReminder
    \/ \E id \in ReminderIds : ClickDelete(id)
    \/ \E i \in 1..Len(remInFlight), list \in ReminderLists : LoadResponseOk(i, list)
    \/ \E i \in 1..Len(remInFlight), kind \in FailureKinds : LoadResponseFail(i, kind)
    \/ \E i \in 1..Len(remInFlight), mapped \in Reminder : ReminderResponseOk(i, mapped)
    \/ \E i \in 1..Len(remInFlight), kind \in FailureKinds : ReminderResponseFail(i, kind)
    \/ \E ok \in BOOLEAN : WebhookSettled(ok)

SpecReminders == Init /\ [][NextReminders]_vars

-----------------------------------------------------------------------------
(* The videos page (VideosPage) *)

\* Most GET /videos requests awaiting their response at once.
MaxListInFlight == 2
\* Most playback-url requests awaiting their response at once.
MaxPlayInFlight == 2

VideosPath == "/videos"

\* The values of the date input and of the two time inputs; "" is the empty input.
Dates == {"", "2025-01-01"}
Times == {"", "08:00"}

\* An ApiVideo by the two fields its id is taken from: videoId, and SK split
\* at '#' ("null" and <<>> mark a missing field).
ApiVideo == [videoId : {"null", "v1"},
             SK : {<<>>, <<"VIDEO">>, <<"VIDEO", "r", "v2">>}]

\* The bodies GET /videos answers with.
ApiVideoLists ==
    { <<>>,
      <<[videoId |-> "v1", SK |-> <<"VIDEO", "r", "v2">>],
        [videoId |-> "null", SK |-> <<"VIDEO", "r", "v2">>]>>,
      <<[videoId |-> "null", SK |-> <<"VIDEO">>]>> }

\* mapApiVideoToVideoItem: the id is videoId, else the third part of SK, else
\* 'unknown'.
MapApiVideoToVideoItem(api) ==
    IF api.videoId # "null" THEN api.videoId
    ELSE IF Len(api.SK) >= 3 THEN api.SK[3]
    ELSE "unknown"

\* valid.map(mapApiVideoToVideoItem)
MappedVideos(data) == [k \in 1..Len(data) |-> MapApiVideoToVideoItem(data[k])]

\* The ids of the videos of a list.
VideoIdsOf(list) == {list[k] : k \in 1..Len(list)}

\* The query string fetchVideos builds: userId, and each filter that is not empty.
VideosQuery(date, from, to) ==
    {<<"userId", "u_123">>}
        \cup (IF date # "" THEN {<<"dateFrom", date>>, <<"dateTo", date>>} ELSE {})
        \cup (IF from # "" THEN {<<"timeFrom", from>>} ELSE {})
        \cup (IF to # "" THEN {<<"timeTo", to>>} ELSE {})

\* The URL the backend hands out for a video: `/videos/${video.id}/playback-url`.
PlaybackUrlOf(id) == <<"playback", id>>

\* The Videos tab of the navigation bar, rendered while there is a token.
OpenVideosTab ==
    /\ authPhase = "ready"
    /\ token # "null"
    /\ pathname # VideosPath
    /\ pathname' = PathAfterLayoutEffect(authLoading, token, VideosPath)
    /\ layoutReplaced' = LayoutRedirects(authLoading, token, VideosPath)
    /\ UNCHANGED <<homeVars, now, reminderVars, videoVars, authPhase, user, token,
                   authLoading, authStorage, authInFlight, formLoading, formError,
                   unhandledRejection, lastAuthEvent>>

\* The router has rendered the videos page.
VideosMount ==
    /\ authPhase = "ready"
    /\ pathname = VideosPath
    /\ vidPhase = "none"
    /\ vidPhase' = "mounted"
    /\ UNCHANGED <<homeVars, now, authVars, reminderVars, vidEffectToken, videos,
                   videosLoading, videosError, selectedDate, timeFrom, timeTo,
                   selectedVideo, playbackUrl, loadingPlayback, listInFlight,
                   playInFlight, videosQuery>>

\* The body of the effect on [token, selectedDate, timeFrom, timeTo] for a
\* commit with the given filters: if (!token) return; fetchVideos() up to its
\* await.
FetchVideosIssued(date, from, to) ==
    IF token = "null"
    THEN UNCHANGED <<videosLoading, videosError, listInFlight>>
    ELSE /\ Len(listInFlight) < MaxListInFlight
         /\ videosLoading' = TRUE
         /\ videosError' = "null"
         /\ listInFlight' = Append(listInFlight, VideosQuery(date, from, to))

\* The effect runs after the first commit and after a commit with another token.
VideosFetchEffect ==
    /\ vidPhase = "mounted"
    /\ vidEffectToken # token
    /\ vidEffectToken' = token
    /\ FetchVideosIssued(selectedDate, timeFrom, timeTo)
    /\ UNCHANGED <<homeVars, now, authVars, reminderVars, vidPhase, videos,
                   selectedDate, timeFrom, timeTo, selectedVideo, playbackUrl,
                   loadingPlayback, playInFlight, videosQuery>>

\* A filter input or the Clear button sets the three filters; a change of any
\* re-runs the effect.
FiltersSet(date, from, to) ==
    /\ vidPhase = "mounted"
    /\ vidEffectToken = token
    /\ <<date, from, to>> # <<selectedDate, timeFrom, timeTo>>
    /\ selectedDate' = date
    /\ timeFrom' = from
    /\ timeTo' = to
    /\ FetchVideosIssued(date, from, to)
    /\ UNCHANGED <<homeVars, now, authVars, reminderVars, vidPhase, vidEffectToken,
                   videos, selectedVideo, playbackUrl, loadingPlayback,
                   playInFlight, videosQuery>>

\* onChange of the date input: setSelectedDate(e.target.value)
SetSelectedDate(date) == FiltersSet(date, timeFrom, timeTo)

\* onChange of the "Time from" input: setTimeFrom(e.target.value)
SetTimeFrom(from) == FiltersSet(selectedDate, from, timeTo)

\* onChange of the "Time to" input: setTimeTo(e.target.value)
SetTimeTo(to) == FiltersSet(selectedDate, timeFrom, to)

\* The Clear button: setSelectedDate(''); setTimeFrom(''); setTimeTo('')
ClearFilters == FiltersSet("", "", "")

\* A 2xx response to the i-th GET /videos in flight, with body `data`:
\* setVideos(mapped), and setLoading(false) in the finally block.
VideosResponseOk(i, data) ==
    /\ i \in 1..Len(listInFlight)
    /\ listInFlight' = RemoveAt(listInFlight, i)
    /\ videos' = MappedVideos(data)
    /\ videosLoading' = FALSE
    /\ videosQuery' = listInFlight[i]
    /\ UNCHANGED <<homeVars, now, authVars, reminderVars, vidPhase, vidEffectToken,
                   videosError, selectedDate, timeFrom, timeTo, selectedVideo,
                   playbackUrl, loadingPlayback, playInFlight>>

\* A failed GET /videos: setError(message), and setLoading(false).
VideosResponseFail(i, kind) ==
    /\ i \in 1..Len(listInFlight)
    /\ listInFlight' = RemoveAt(listInFlight, i)
    /\ videosError' = "error"
    /\ videosLoading' = FALSE
    /\ UNCHANGED <<homeVars, now, authVars, reminderVars, vidPhase, vidEffectToken,
                   videos, selectedDate, timeFrom, timeTo, selectedVideo,
                   playbackUrl, loadingPlayback, playInFlight, videosQuery>>

\* The player modal covers the page while a video is selected.
PlayerOpen == selectedVideo # "null"

\* onClick of a listed video: playVideo(v) up to its await.
PlayVideo(id) ==
    /\ vidPhase = "mounted"
    /\ ~videosLoading
    /\ ~PlayerOpen
    /\ id \in VideoIdsOf(videos)
    /\ Len(playInFlight) < MaxPlayInFlight
    /\ selectedVideo' = id
    /\ loadingPlayback' = TRUE
    /\ playbackUrl' = "null"
    /\ playInFlight' = Append(playInFlight, id)
    /\ UNCHANGED <<homeVars, now, authVars, reminderVars, vidPhase, vidEffectToken,
                   videos, videosLoading, videosError, selectedDate, timeFrom,
                   timeTo, listInFlight, videosQuery>>

\* A 2xx response to the i-th playback-url request in flight:
\* setPlaybackUrl(response.playbackUrl), and setLoadingPlayback(false).
PlaybackResponseOk(i) ==
    /\ i \in 1..Len(playInFlight)
    /\ playInFlight' = RemoveAt(playInFlight, i)
    /\ playbackUrl' = PlaybackUrlOf(playInFlight[i])
    /\ loadingPlayback' = FALSE
    /\ UNCHANGED <<homeVars, now, authVars, reminderVars, vidPhase, vidEffectToken,
                   videos, videosLoading, videosError, selectedDate, timeFrom,
                   timeTo, selectedVideo, listInFlight, videosQuery>>

\* A failed playback-url request: alert, setSelectedVideo(null), and
\* setLoadingPlayback(false).
PlaybackResponseFail(i, kind) ==
    /\ i \in 1..Len(playInFlight)
    /\ playInFlight' = RemoveAt(playInFlight, i)
    /\ selectedVideo' = "null"
    /\ loadingPlayback' = FALSE
    /\ UNCHANGED <<homeVars, now, authVars, reminderVars, vidPhase, vidEffectToken,
                   videos, videosLoading, videosError, selectedDate, timeFrom,
                   timeTo, playbackUrl, listInFlight, videosQuery>>

\* closePlayer: the backdrop or the close button of the player modal.
ClosePlayer ==
    /\ vidPhase = "mounted"
    /\ PlayerOpen
    /\ selectedVideo' = "null"
    /\ playbackUrl' = "null"
    /\ UNCHANGED <<homeVars, now, authVars, reminderVars, vidPhase, vidEffectToken,
                   videos, videosLoading, videosError, selectedDate, timeFrom,
                   timeTo, loadingPlayback, listInFlight, playInFlight,
                   videosQuery>>

\* The list of the videos page: a user signs in, opens the page and filters.
NextVideoList ==
    \/ AuthRestore
    \/ SubmitAuthForm("login")
    \/ \E i \in 1..Len(authInFlight), session \in Sessions : SignInResponseOk(i, session)
    \/ OpenVideosTab
    \/ VideosMount
    \/ VideosFetchEffect
    \/ \E date \in Dates : SetSelectedDate(date)
    \/ \E from \in Times : SetTimeFrom(from)
    \/ \E to \in Times : SetTimeTo(to)
    \/ ClearFilters
    \/ \E i \in 1..Len(listInFlight), data \in ApiVideoLists : VideosResponseOk(i, data)
    \/ \E i \in 1..Len(listInFlight), kind \in FailureKinds : VideosResponseFail(i, kind)

SpecVideoList == Init /\ [][NextVideoList]_vars

\* The player of the videos page: a user signs in, opens the page and plays
\* the videos of the unfiltered list.
NextPlayback ==
    \/ AuthRestore
    \/ SubmitAuthForm("login")
    \/ \E i \in 1..Len(authInFlight), session \in Sessions : SignInResponseOk(i, session)
    \/ OpenVideosTab
    \/ VideosMount
    \/ VideosFetchEffect
    \/ \E i \in 1..Len(listInFlight), data \in ApiVideoLists : VideosResponseOk(i, data)
    \/ \E i \in 1..Len(listInFlight), kind \in FailureKinds : VideosResponseFail(i, kind)
    \/ \E id \in {"v1", "v2", "unknown"} : PlayVideo(id)
    \/ \E i \in 1..Len(playInFlight) : PlaybackResponseOk(i)
    \/ \E i \in 1..Len(playInFlight), kind \in FailureKinds : PlaybackResponseFail(i, kind)
    \/ ClosePlayer

SpecPlayback == Init /\ [][NextPlayback]_vars

-----------------------------------------------------------------------------
(* Properties of the fall detection lifecycle *)

\* The card a fall with the given user_response is classified to.
CardOfResponse(user_response) ==
    CASE user_response = "null" -> "Waiting"
      [] user_response = "CONFIRMED" -> "Confirmed"
      [] user_response = "NO_RESPONSE" -> "Emergency"

\* C1: once dismissFall(T) has been performed, no Waiting, Confirmed or
\* Emergency card is on screen for a fall whose timestamp is T, whatever the
\* later poll responses report for T.
C1_DismissedStaysHidden ==
    \A t \in dismissCalls : t \notin DisplayedFallTimestamps

\* C1 happens: a poll applied after dismissFall(T) still reports T, with a
\* user_response other than the one it was dismissed in.
C1_Witness ==
    /\ phase = "mounted"
    /\ Monitoring(emergencyStatus)
    /\ ~emergencyStatus.latest_fall.isNull
    /\ emergencyStatus.latest_fall.timestamp \in dismissCalls
    /\ emergencyStatus.latest_fall.user_response = "null"

\* C2: when the last applied response reports, with monitoring on, a fall
\* whose timestamp was never dismissed, the card on screen is the card of that
\* fall in the state its user_response gives, whichever other timestamps were
\* dismissed.
C2_NewFallNotSuppressed ==
    ( /\ phase = "mounted"
      /\ ~lastResponse.isNull
      /\ lastResponse.monitoring
      /\ ~lastResponse.latest_fall.isNull
      /\ lastResponse.latest_fall.timestamp \notin dismissCalls )
    => /\ DisplayedCards = {CardOfResponse(lastResponse.latest_fall.user_response)}
       /\ DisplayedFallTimestamps = {lastResponse.latest_fall.timestamp}

\* C2 happens: a timestamp was dismissed and the card of a fall with another
\* timestamp is on screen.
C2_Witness ==
    /\ dismissCalls # {}
    /\ DisplayedFallTimestamps # {}
    /\ DisplayedFallTimestamps \cap dismissCalls = {}

\* C3: for every fall timestamp the alert sound is played at most once.
C3_SoundAtMostOnce ==
    \A t \in Timestamps : soundCount[t] <= 1

\* C4 as claimed: the response that first reports NO_RESPONSE for a timestamp
\* plays the sound exactly once while it is handled, whatever came before.
C4_SoundOnFirstNoResponse ==
    [][ \A i \in 1..Len(emergencyInFlight), data \in EmergencyStatus :
          ( /\ EmergencyResponseOk(i, data)
            /\ ReportsNoResponse(data)
            /\ data.latest_fall.timestamp \notin noResponseSeen )
          => soundCount' = [soundCount EXCEPT ![data.latest_fall.timestamp] = @ + 1]
      ]_vars

\* C4 amended: the response that first reports NO_RESPONSE for a timestamp
\* plays the sound exactly once while it is handled when the timestamp was not
\* dismissed at the time the request was issued, and does not play it when it
\* was.
C4_SoundOnFirstNoResponseUnlessDismissed ==
    [][ \A i \in 1..Len(emergencyInFlight), data \in EmergencyStatus :
          ( /\ EmergencyResponseOk(i, data)
            /\ ReportsNoResponse(data)
            /\ data.latest_fall.timestamp \notin noResponseSeen )
          => IF data.latest_fall.timestamp \in emergencyInFlight[i].dismissedFalls
             THEN soundCount' = soundCount
             ELSE soundCount' =
                      [soundCount EXCEPT ![data.latest_fall.timestamp] = @ + 1]
      ]_vars

\* C4 happens: one timestamp's first NO_RESPONSE report played the sound and
\* another's, dismissed before, did not.
C4_Witness ==
    \E t, u \in noResponseSeen : soundCount[t] = 1 /\ soundCount[u] = 0

\* C5: while no status was received or the last applied status has monitoring
\* off, the Offline card and no other card is on screen, whatever latest_fall
\* and the dismissed set hold.
C5_OfflineWhenNotMonitoring ==
    ( /\ phase # "unmounted"
      /\ lastResponse.isNull \/ ~lastResponse.monitoring )
    => DisplayedCards = {"Offline"}

\* C5 happens: monitoring is off in a status that carries a fall, and that
\* fall's timestamp is dismissed.
C5_Witness ==
    /\ phase = "mounted"
    /\ ~lastResponse.isNull
    /\ ~lastResponse.monitoring
    /\ ~lastResponse.latest_fall.isNull
    /\ lastResponse.latest_fall.timestamp \in dismissedFalls

\* The latest fall of the status on screen is dismissed while monitoring is on.
LatestFallDismissed ==
    /\ Monitoring(emergencyStatus)
    /\ ~emergencyStatus.latest_fall.isNull
    /\ emergencyStatus.latest_fall.timestamp \in dismissedFalls

\* C6: at most one of the five cards is rendered; exactly one, unless
\* monitoring is on and the latest fall's timestamp is dismissed, and then none.
C6_OneCardAtMost ==
    phase # "unmounted" =>
        /\ Cardinality(DisplayedCards) <= 1
        /\ LatestFallDismissed => DisplayedCards = {}
        /\ ~LatestFallDismissed => Cardinality(DisplayedCards) = 1

\* C6 happens: no card is rendered for a dismissed latest fall.
C6_Witness ==
    phase = "mounted" /\ LatestFallDismissed /\ DisplayedCards = {}

\* C7: the cards on screen are those of the last applied response and the
\* dismissed set alone, and the round-trip backend sequence yields Offline,
\* Idle, Waiting, Confirmed in that order.
C7_DisplayFollowsLastResponse ==
    /\ phase # "unmounted" =>
           DisplayedCards =
               IF lastResponse.isNull \/ ~lastResponse.monitoring THEN {"Offline"}
               ELSE IF lastResponse.latest_fall.isNull THEN {"Idle"}
               ELSE IF lastResponse.latest_fall.timestamp \in dismissedFalls THEN {}
               ELSE {CardOfResponse(lastResponse.latest_fall.user_response)}
    /\ scenario.step = Len(ScenarioResponses) =>
           scenario.shown = << {"Offline"}, {"Idle"}, {"Waiting"}, {"Confirmed"} >>

\* C7 happens: the four responses of the round-trip sequence were applied.
C7_Witness ==
    scenario.step = Len(ScenarioResponses)

-----------------------------------------------------------------------------
(* Properties of the pollers *)

\* C8: once the view is torn down no step issues an emergency-status or a
\* stream-status GET: the requests in flight are only ever answered.
C8_NoRequestAfterTeardown ==
    [][ phase = "unmounted" =>
          /\ streamInFlight' <= streamInFlight
          /\ \/ emergencyInFlight' = emergencyInFlight
             \/ \E i \in 1..Len(emergencyInFlight) :
                    emergencyInFlight' = RemoveAt(emergencyInFlight, i)
      ]_vars

\* C8 happens: a view that polled and applied a response is torn down and
\* every request it had in flight has been answered.
C8_Witness ==
    /\ phase = "unmounted"
    /\ streamBaseUrl # ""
    /\ ~lastResponse.isNull
    /\ emergencyInFlight = <<>>
    /\ streamInFlight = 0

\* C9: a failed emergency-status poll leaves the stored status, the alerted
\* set and the dismissed set as they were, plays no sound, shows no error, and
\* leaves the poll interval of a mounted view set.
C9_EmergencyFailureKeepsState ==
    [][ \A i \in 1..Len(emergencyInFlight), kind \in FailureKinds :
          EmergencyResponseFail(i, kind) =>
              /\ UNCHANGED <<emergencyStatus, alertedFalls, dismissedFalls,
                             soundCount, streamError, emergencyInterval>>
              /\ phase = "mounted" => emergencyInterval'.isSet
      ]_vars

\* C9 happens: a mounted view with a stream URL has no request in flight and
\* has never applied a response, so every poll it issued has failed.
C9_Witness ==
    /\ phase = "mounted"
    /\ streamBaseUrl # ""
    /\ emergencyInFlight = <<>>
    /\ lastResponse.isNull

-----------------------------------------------------------------------------
(* Properties of the unconfigured view and of the two sets *)

\* C11: with no stream base URL configured neither poller ever has a GET in
\* flight, the emergency status stays unset with the Offline card alone on
\* screen, the connection check is in the not-checking state once the view is
\* mounted, the device is never shown connected and no stream error is set.
C11_UnconfiguredStaysIdle ==
    streamBaseUrl = "" =>
        /\ streamInFlight = 0
        /\ emergencyInFlight = <<>>
        /\ ~emergencyInterval.isSet
        /\ emergencyStatus = NullStatus
        /\ phase # "unmounted" => DisplayedCards = {"Offline"}
        /\ phase # "init" => ~isCheckingStatus
        /\ ~isConnected
        /\ streamStatus = NullStream
        /\ streamError = "null"

\* C11 happens: an unconfigured view was mounted, so both effects have run.
C11_Witness ==
    /\ streamBaseUrl = ""
    /\ phase = "mounted"
    /\ streamInterval
    /\ ~isCheckingStatus

\* C14: the dismissed set changes only by adding the timestamp of the latest
\* fall while that fall's Confirmed or Emergency card is on screen; no step
\* taken while the Waiting, Offline or Idle card (or no card) is on screen
\* changes it.
C14_DismissOnlyFromConfirmedOrEmergency ==
    [][ dismissedFalls' # dismissedFalls =>
          /\ DisplayedCards \cap {"Confirmed", "Emergency"} # {}
          /\ DisplayedFallTimestamps = {emergencyStatus.latest_fall.timestamp}
          /\ dismissedFalls' =
                 dismissedFalls \cup {emergencyStatus.latest_fall.timestamp}
      ]_vars

\* C14 happens: a fall was dismissed and the Waiting card of another fall,
\* which has no Dismiss button, is on screen.
C14_Witness ==
    /\ dismissedFalls # {}
    /\ DisplayedCards = {"Waiting"}

\* C15: dismissFall leaves the alerted set as it was, and every step that
\* changes the alerted set (marking a fall alerted while its sound is played)
\* leaves the dismissed set as it was.
C15_SetsIndependent ==
    [][ /\ DismissFall => alertedFalls' = alertedFalls
        /\ alertedFalls' # alertedFalls => dismissedFalls' = dismissedFalls
        /\ dismissedFalls' # dismissedFalls => alertedFalls' = alertedFalls
      ]_vars

\* C15 happens: a fall that was alerted has been dismissed, and another fall
\* was alerted after a dismissal.
C15_Witness ==
    /\ alertedFalls \cap dismissedFalls # {}
    /\ alertedFalls \ dismissedFalls # {}

-----------------------------------------------------------------------------
(* Properties of the Waiting card's countdown *)

\* C12: while the latest fall is classified Waiting, the stored status and the
\* dismissed set change only when a successful poll response with different
\* content is applied; the passage of time and the countdown's ticks, at and
\* after 0 too, leave them as they are.
C12_WaitingLeftOnlyByPoll ==
    [][ WaitingCardShown(emergencyStatus, dismissedFalls) =>
          /\ (ClockAdvance \/ CountdownTick) =>
                 UNCHANGED <<emergencyStatus, dismissedFalls>>
          /\ <<emergencyStatus, dismissedFalls>>' # <<emergencyStatus, dismissedFalls>> =>
                 /\ phase = "mounted"
                 /\ dismissedFalls' = dismissedFalls
                 /\ emergencyStatus' \in EmergencyStatus \ {emergencyStatus}
                 /\ \E i \in 1..Len(emergencyInFlight) :
                        EmergencyResponseOk(i, emergencyStatus')
      ]_vars

\* C12 happens: the countdown of a Waiting card has been at 0 for a second and
\* the card is still the Waiting card.
C12_Witness ==
    /\ WaitingAlertMounted
    /\ DisplayedCards = {"Waiting"}
    /\ timeSinceFall > ResponseWindow
    /\ DisplayedCountdown = 0

\* The whole number of seconds from the fall to now.
ElapsedSeconds(fallTimestamp) ==
    CHOOSE n \in -(NumFalls + 1)..(MaxNow \div 1000 + 1) :
        /\ 1000 * n <= now - FallTime(fallTimestamp)
        /\ now - FallTime(fallTimestamp) < 1000 * (n + 1)

\* max(0, 15 - elapsedSeconds) for the fall on screen.
ExactCountdown ==
    LET remaining == 15 - ElapsedSeconds(emergencyStatus.latest_fall.timestamp)
    IN  IF remaining > 0 THEN remaining ELSE 0

C21_UrgentAtZero ==
    WaitingAlertMounted => (DisplayedUrgent <=> DisplayedCountdown = 0)

\* C21 amended: the Waiting card is styled urgent exactly when 10 or more
\* whole seconds had elapsed at its last recomputation, that is from a
\* countdown of 5 down to and at 0, and the card on screen is the Waiting card
\* all the while.
C21_UrgentFromFiveSeconds ==
    WaitingAlertMounted =>
        /\ DisplayedUrgent <=> timeSinceFall >= 10
        /\ DisplayedCountdown = 0 => DisplayedUrgent
        /\ DisplayedCards = {"Waiting"}
        /\ emergencyStatus.latest_fall.user_response = "null"

\* C21 happens: the countdown has reached 0 on an urgent card that is still
\* the Waiting card, after having been urgent above 0.
C21_Witness ==
    /\ WaitingAlertMounted
    /\ DisplayedCountdown = 0
    /\ DisplayedUrgent
    /\ DisplayedCards = {"Waiting"}

-----------------------------------------------------------------------------
(* Properties of the order of responses *)

\* C20: the response of an emergency-status request that was issued before a
\* request whose response has already been applied is discarded: handling it
\* leaves the stored emergency status as it is.
C20_StaleResponseDiscarded ==
    [][ \A i \in 1..staleRequests, data \in EmergencyStatus :
          EmergencyResponseOk(i, data) => emergencyStatus' = emergencyStatus
      ]_vars

-----------------------------------------------------------------------------
(* Properties of the session *)

\* C16: when the application starts anew, the provider restores from local
\* storage exactly the token and user of the last completed operation if that
\* was a successful login or register, and restores nothing if it was a
\* logout or a rejected whoami check; and whenever the restore has run,
\* loading is false.
C16_StoredSessionMirrorsSession ==
    [][ /\ authPhase' = "ready" => ~authLoading'
        /\ AuthRestore =>
              /\ lastAuthEvent.kind \in {"login", "register"} =>
                     /\ token' = lastAuthEvent.token
                     /\ user' = lastAuthEvent.user
                     /\ token' # "null" /\ user' # "null"
              /\ lastAuthEvent.kind \in {"logout", "logoutSkipped", "rejected"} =>
                     token' = "null" /\ user' = "null"
      ]_vars

\* C16 happens: a session created by register was restored by a fresh start.
C16_Witness ==
    /\ authPhase = "ready"
    /\ lastAuthEvent.kind = "register"
    /\ lastAuthEvent.restored
    /\ token = lastAuthEvent.token
    /\ ~authLoading

\* C17: a failed whoami check sets token and user to null and removes the
\* stored session, and the route after it is /auth, whichever route the user
\* was on.
C17_RejectedCheckSignsOut ==
    [][ \A i \in 1..Len(authInFlight), kind \in FailureKinds :
          RefreshMeFail(i, kind) =>
              /\ token' = "null"
              /\ user' = "null"
              /\ authStorage' = NoItem
              /\ pathname' = "/auth"
      ]_vars

\* C17 happens: the whoami check of a user on the reminders route failed.
C17_Witness ==
    /\ lastAuthEvent.kind = "rejected"
    /\ lastAuthEvent.from = "/reminders"
    /\ pathname = "/auth"
    /\ token = "null"

\* C18: no failed remote call leaves a rejected promise without a handler.
C18_NoUnhandledRejection ==
    ~unhandledRejection

-----------------------------------------------------------------------------
(* Properties of the reminders page *)

\* C19: when the create, update or delete request of a mounted reminders page
\* fails, the error message is set, the reminder list is as it was, no device
\* webhook call is triggered, and no request is issued in its place.
C19_FailedReminderActionKeepsList ==
    [][ \A i \in 1..Len(remInFlight), kind \in FailureKinds :
          (ReminderResponseFail(i, kind) /\ remInFlight[i].live) =>
              /\ remError' # "null"
              /\ reminders' = reminders
              /\ webhookInFlight' = webhookInFlight
              /\ remInFlight' = RemoveAt(remInFlight, i)
      ]_vars

\* C19 happens: the delete of a listed reminder failed for a page with a
\* device URL; the reminder is still listed and the error is shown.
C19_Witness ==
    /\ remPhase = "mounted"
    /\ streamBaseUrl # ""
    /\ lastReminderOutcome = [op |-> "delete", ok |-> FALSE]
    /\ remError = "error"
    /\ reminders # <<>>
    /\ remInFlight = <<>>

-----------------------------------------------------------------------------
(* Further properties of the alert sound *)

\* C23: the alert sound is never played for a timestamp that is in the
\* dismissed set at the moment the sound is played, however dismissals
\* interleave with the poll requests in flight.
C23_NoSoundForDismissed ==
    [][ \A i \in 1..Len(emergencyInFlight), data \in EmergencyStatus :
          (EmergencyResponseOk(i, data) /\ soundCount' # soundCount)
          => data.latest_fall.timestamp \notin dismissedFalls
      ]_vars

\* C24: whenever handling a poll response plays the alert sound, the section
\* rendered from that response and the current dismissed set is the Emergency
\* card.
C24_SoundOnlyWithEmergencyCard ==
    [][ \A i \in 1..Len(emergencyInFlight), data \in EmergencyStatus :
          (EmergencyResponseOk(i, data) /\ soundCount' # soundCount)
          => RenderedCards(data, dismissedFalls) = {"Emergency"}
      ]_vars

\* C25: while the home view is mounted at most one emergency-status poll
\* interval is set, however often the poll effect is torn down and set up
\* again by a change of the alerted set or of the dismissed set; it is the
\* one the last run of the effect has set.
C25_AtMostOnePollTimer ==
    phase = "mounted" =>
        /\ emergencyTimers <= 1
        /\ emergencyTimers = 1 <=> emergencyInterval.isSet
        /\ emergencyInterval.isSet =>
               /\ emergencyInterval.alertedFalls = alertedFalls
               /\ emergencyInterval.dismissedFalls = dismissedFalls

\* C25 happens: the effect has been re-run by a change of the alerted set and
\* by a change of the dismissed set, and one interval is set.
C25_Witness ==
    /\ phase = "mounted"
    /\ alertedFalls # {}
    /\ dismissedFalls # {}
    /\ emergencyTimers = 1

-----------------------------------------------------------------------------
(* Further properties of the countdown *)

\* C26: the countdown the Waiting card shows lies in 0..15, for every fall
\* timestamp, one later than the current time included, and every current
\* time.
C26_CountdownWithinWindow ==
    WaitingAlertMounted => DisplayedCountdown \in 0..ResponseWindow

-----------------------------------------------------------------------------
(* Further properties of the session *)

\* C22: every way logout ends (its request answered with 2xx, its request
\* failed, or no request made for want of a token) leaves token and user null
\* and no session in local storage.
C22_LogoutAlwaysClears ==
    [][ \A i \in 1..Len(authInFlight), kind \in FailureKinds :
          (LogoutResponseOk(i) \/ LogoutResponseFail(i, kind) \/ LogoutSkipped) =>
              /\ token' = "null"
              /\ user' = "null"
              /\ authStorage' = NoItem
      ]_vars

\* C22 happens: a logout request has failed, and a later logout without a
\* token has cleared a user that was still set.
C22_Witness ==
    /\ unhandledRejection
    /\ lastAuthEvent.kind = "logoutSkipped"
    /\ lastAuthEvent.user # "null"
    /\ user = "null"
    /\ authStorage = NoItem

\* C27: whenever loading is false and no auth request is in flight, token and
\* user are both set or both null, and local storage holds a session exactly
\* when they are set, however login, register, logout and refreshMe calls
\* interleave with their responses.
C27_SessionConsistentWhenQuiet ==
    (authPhase = "ready" /\ ~authLoading /\ authInFlight = <<>>) =>
        /\ token = "null" <=> user = "null"
        /\ authStorage # NoItem <=> token # "null"

\* C28: the layout calls router.replace('/auth') exactly when loading has
\* finished, there is no token and the route is not /auth.  A commit with a
\* route other than /auth and no token is redirected once loading is over, so
\* no such state is left standing; a redirect is never issued while the stored
\* session is still being loaded, never with a token, and never for a commit
\* whose route is /auth already.
C28_LayoutRedirectsExactly ==
    /\ [](authPhase = "ready" => ~LayoutRedirects(authLoading, token, pathname))
    /\ [][ /\ layoutReplaced' =>
                 /\ ~authLoading'
                 /\ token' = "null"
                 /\ pathname' = "/auth"
           /\ \A path \in Paths : Reload(path) =>
                 /\ ~layoutReplaced'
                 /\ pathname' = path
           /\ \A path \in Paths : Navigate(path) =>
                 /\ ~layoutReplaced'
                 /\ pathname' = path
           /\ (pathname = "/auth" /\ ~AuthPageAutoRedirect /\ authPhase' = "ready") =>
                 ~layoutReplaced'
           /\ ( /\ authPhase' = "ready" /\ ~authLoading' /\ token' = "null"
                /\ pathname # "/auth"
                /\ \A i \in 1..Len(authInFlight) : ~LogoutResponseOk(i) ) =>
                 /\ pathname' = "/auth"
                 /\ layoutReplaced' \/ <<authLoading, token>>' = <<authLoading, token>>
      ]_vars

\* C28 happens: the application was loaded at a route other than /auth
\* without a stored session; the restore that ended loading was followed by
\* the redirect.
C28_Witness ==
    /\ authPhase = "ready"
    /\ lastAuthEvent.restored
    /\ layoutReplaced
    /\ pathname = "/auth"
    /\ token = "null"
    /\ authStorage = NoItem

-----------------------------------------------------------------------------
(* Properties of the videos page *)

\* C29: once every GET /videos request has been answered, the videos listed
\* are the response to the request of the filters selected last, even when
\* the filters were changed while earlier requests were still in flight.
C29_ListMatchesLatestFilter ==
    ( /\ vidPhase = "mounted"
      /\ vidEffectToken = token /\ token # "null"
      /\ listInFlight = <<>>
      /\ videosError = "null" )
    => videosQuery = VideosQuery(selectedDate, timeFrom, timeTo)

\* C30: whenever playbackUrl is set, a video is selected and the URL is the
\* one fetched for that video, however playVideo, closePlayer and the
\* playback-url responses interleave.
C30_PlaybackUrlOfSelectedVideo ==
    playbackUrl # "null" =>
        /\ selectedVideo # "null"
        /\ playbackUrl = PlaybackUrlOf(selectedVideo)

====
